---- MODULE Spec2Model ----
(***************************************************************************)
(* XApiClient (src/src/brokers/xtb/x_api_client.js) and EventTarget2       *)
(* (src/src/events/events.ts): the socket session, the frame parser, the   *)
(* event correlation and the subscription lifecycle of the XTB client.     *)
(*                                                                         *)
(* Text on the wire is a sequence of one-character strings.  "{" stands    *)
(* for the opening of a JSON object up to and including the opening quote  *)
(* of its last string value, "}" for the closing quote and brace, so that  *)
(* what lies between them is the inside of a JSON string: a space there is *)
(* significant and a raw newline there is a syntax error.  A response of   *)
(* the broker is written between the braces as one symbol (RespId).        *)
(***************************************************************************)
EXTENDS Integers, Sequences, FiniteSets, TLC

\* ------------------------------------------------------------------ bounds
MaxFrames == 2    \* frames on the wire of the parser specification
MaxCuts == 2      \* chunk boundaries placed in that wire
MaxOps == 4       \* invocations of the client's methods
MaxRecv == 2      \* chunks delivered to the client's sockets
MaxSockets == 3   \* transports ever opened by one client
MaxBlank == 3     \* characters of a whitespace-only chunk
MaxBlanks == 2    \* whitespace-only chunks received in a row
MaxDigits == 2    \* decimal places of a chart's prices
MaxCandles == 2   \* entries of a chart's rateInfos
MaxPerChunk == 3  \* complete frames in one received chunk

\* --------------------------------------------------------------- constants
Undefined == "undefined"
NL == "\n"
SP == " "
ERROR_PREFIX == "ERROR_"
LOGIN == "login"
LOGOUT == "logout"
PING == "ping"
CALENDAR == "calendar"
CHART_LAST_REQUEST == "chartLastRequest"
STREAM_TRADES == "streamTrades"
STREAM_BALANCE == "streamBalance"
STREAM_CANDLES == "streamCandles"
STREAM_KEEP_ALIVE == "streamKeepAlive"
STREAM_NEWS == "streamNews"
STREAM_PROFITS == "streamProfits"
STREAM_TICK_PRICES == "streamTickPrices"
STREAM_TRADE_STATUS == "streamTradeStatus"
NormalClosure == 1000

\* ------------------------------------------------------------ wire strings
IsSpace(c) == c = SP \/ c = NL

RECURSIVE TrimStart(_)
TrimStart(s) ==
  IF s # <<>> /\ IsSpace(Head(s)) THEN TrimStart(Tail(s)) ELSE s

RECURSIVE TrimEnd(_)
TrimEnd(s) ==
  IF s # <<>> /\ IsSpace(s[Len(s)]) THEN TrimEnd(SubSeq(s, 1, Len(s) - 1)) ELSE s

\* String.prototype.trim
Trim(s) == TrimEnd(TrimStart(s))

\* positions (1-based) at which the separator "\n\n" starts
SepAt(s) == {i \in 1..(Len(s) - 1) : s[i] = NL /\ s[i + 1] = NL}

Min(S) == CHOOSE m \in S : \A n \in S : m <= n
Max(S) == CHOOSE m \in S : \A n \in S : m >= n

\* String.prototype.split('\n\n'): leftmost, non-overlapping separators
RECURSIVE Split(_)
Split(s) ==
  IF SepAt(s) = {} THEN <<s>>
  ELSE LET i == Min(SepAt(s))
       IN  <<SubSeq(s, 1, i - 1)>> \o Split(SubSeq(s, i + 2, Len(s)))

\* String.prototype.lastIndexOf('\n\n'), 0-based, -1 when absent
LastIndexOf(s) == IF SepAt(s) = {} THEN -1 ELSE Max(SepAt(s)) - 1

\* JSON.parse of a wire text: the inside of the object, or a SyntaxError
JSONParse(text) ==
  LET t == Trim(text)
      inner == SubSeq(t, 2, Len(t) - 1)
      ok == /\ Len(t) >= 2
            /\ t[1] = "{"
            /\ t[Len(t)] = "}"
            /\ \A i \in 1..Len(inner) : inner[i] \notin {"{", "}", NL}
  IN  [ok |-> ok, value |-> IF ok THEN inner ELSE <<>>]

\* _parseResponse, lines 221-228: the segments to parse and the new remainder
SplitResponses(buffered, rcvd) ==
  LET responses == Split(Trim(buffered \o rcvd))
      atBoundary == LastIndexOf(rcvd) = Len(rcvd) - 2
  IN  [remainder |-> IF atBoundary THEN <<>> ELSE responses[Len(responses)],
       responses |-> IF atBoundary THEN responses
                     ELSE SubSeq(responses, 1, Len(responses) - 1)]

\* the loop of line 229 run from the last segment to the first
RECURSIVE ParsedLastFirst(_)
ParsedLastFirst(responses) ==
  IF responses = <<>> THEN <<>>
  ELSE LET p == JSONParse(responses[Len(responses)])
       IN  IF p.ok
           THEN <<p.value>> \o ParsedLastFirst(SubSeq(responses, 1, Len(responses) - 1))
           ELSE <<>>

\* _parseResponse, the loop of line 229: JSON.parse throws at the first
\* segment that is not JSON and the segments after it are never looked at
RECURSIVE ParsedPrefix(_)
ParsedPrefix(responses) ==
  IF responses = <<>> THEN <<>>
  ELSE LET p == JSONParse(Head(responses))
       IN  IF p.ok THEN <<p.value>> \o ParsedPrefix(Tail(responses)) ELSE <<>>

ParseThrows(responses) == \E i \in 1..Len(responses) : ~JSONParse(responses[i]).ok

\* ------------------------------------------------------- broker responses
RespTags == {LOGIN, PING, CALENDAR, "getCalendar", STREAM_TRADES, "eventName"}
Data == {"d1", "d2"}
Sids == {"s1", "s2"}
Errors == {[errorCode |-> "BE005", errorDescr |-> "denied"]}
LoginErrors == Errors \cup {[errorCode |-> "BE118", errorDescr |-> "locked"]}

\* the inbound shapes {status, customTag, returnData, streamSessionId} and
\* {status, customTag, errorCode, errorDescr}
AllResponses ==
  {[status |-> TRUE, customTag |-> t, returnData |-> d,
    streamSessionId |-> Undefined, errorCode |-> Undefined,
    errorDescr |-> Undefined] : t \in RespTags \ {LOGIN}, d \in Data}
  \cup
  {[status |-> TRUE, customTag |-> LOGIN, returnData |-> Undefined,
    streamSessionId |-> s, errorCode |-> Undefined,
    errorDescr |-> Undefined] : s \in Sids}
  \cup
  {[status |-> FALSE, customTag |-> t, returnData |-> Undefined,
    streamSessionId |-> Undefined, errorCode |-> e.errorCode,
    errorDescr |-> e.errorDescr] : t \in RespTags \ {LOGIN}, e \in Errors}
  \cup
  {[status |-> FALSE, customTag |-> LOGIN, returnData |-> Undefined,
    streamSessionId |-> Undefined, errorCode |-> e.errorCode,
    errorDescr |-> e.errorDescr] : e \in LoginErrors}

\* the symbol that stands for the members of a response between the braces
RespId(r) ==
  IF r.status
  THEN "+" \o r.customTag \o ":" \o r.returnData \o ":" \o r.streamSessionId
  ELSE "-" \o r.customTag \o ":" \o r.errorCode \o ":" \o r.errorDescr

RespIds == {RespId(r) : r \in AllResponses}

\* the object JSON.parse returns for the text between the braces; an object
\* that is no response of the broker has neither status nor customTag
ResponseObj(inner) ==
  IF Len(inner) = 1 /\ inner[1] \in RespIds
  THEN CHOOSE r \in AllResponses : RespId(r) = inner[1]
  ELSE [status |-> FALSE, customTag |-> Undefined, returnData |-> Undefined,
        streamSessionId |-> Undefined, errorCode |-> Undefined,
        errorDescr |-> Undefined]

\* the text of one response as the broker writes it, "\n\n"-terminated
WireFrame(r) == <<"{", RespId(r), "}", NL, NL>>

\* the dispatch of lines 231-240 without the exception for the login tag
EventOfReturnData(inner) ==
  LET responseObj == ResponseObj(inner)
  IN  IF responseObj.status
      THEN [type |-> responseObj.customTag, detail |-> responseObj.returnData]
      ELSE [type |-> ERROR_PREFIX \o responseObj.customTag,
            detail |-> IF Len(inner) = 1 THEN inner[1] ELSE Undefined]

\* _parseResponse, lines 231-240: the CustomEvent dispatched for one response
EventOf(inner) ==
  LET responseObj == ResponseObj(inner)
  IN  IF responseObj.status
      THEN [type |-> responseObj.customTag,
            detail |-> IF responseObj.customTag = LOGIN
                       THEN responseObj.streamSessionId
                       ELSE responseObj.returnData]
      ELSE [type |-> ERROR_PREFIX \o responseObj.customTag,
            detail |-> IF Len(inner) = 1 THEN inner[1] ELSE Undefined]

EventsOf(parsed) == [i \in 1..Len(parsed) |-> EventOf(parsed[i])]

\* ------------------------------------------------------------------- state
VARIABLES
  transport,        \* what send() does on a transport that is still connecting
  isDemo,           \* the constructor's isDemo
  isLoggedIn,       \* XApiClient.isLoggedIn
  streamSessionId,  \* XApiClient.#streamSessionId
  sockets,          \* XApiClient.#sockets: name -> socket
  data,             \* XApiClient.#data: socket -> partial frame
  ws,               \* every WebSocket constructed so far, by identity
  eventsListened,   \* EventTarget2.#eventsListened
  listeners,        \* the listener list of the EventTarget
  calls,            \* the promises of _callOperation and login
  gens,             \* the async generators of _streamOperation
  ret,              \* what the last synchronous method call returned
  nops,             \* method invocations so far
  nrecv,            \* chunks received so far
  loginReplied,     \* the login replies received: how many, and the
                    \* streamSessionId of the last successful one since
                    \* the last logout
  pfFrames,         \* parser specification: the frames put on the wire
  pfChunks,         \* parser specification: the chunks not yet received
  pfData,           \* parser specification: the connection's partial frame
  pfOut,            \* parser specification: the responses parsed so far
  pfEvents,         \* parser specification: the events dispatched so far
  pfThrown,         \* parser specification: _parseResponse has thrown
  awaited,          \* result specification: the method that awaits and the
                    \* returnData its call has resolved with
  result            \* result specification: what the method then gave

clientVars == <<transport, isDemo, isLoggedIn, streamSessionId, sockets, data, ws,
                eventsListened, listeners, calls, gens, ret, nops, nrecv,
                loginReplied>>
parserVars == <<pfFrames, pfChunks, pfData, pfOut, pfEvents, pfThrown>>
resultVars == <<awaited, result>>
vars == <<transport, isDemo, isLoggedIn, streamSessionId, sockets, data, ws,
          eventsListened, listeners, calls, gens, ret, nops, nrecv,
          loginReplied, pfFrames, pfChunks, pfData, pfOut, pfEvents, pfThrown,
          awaited, result>>

NoCall == [method |-> "none"]
NoResult == [outcome |-> "none"]

\* ------------------------------------------------------------ Map, objects
EmptyMap == <<>>
MapSet(m, k, v) == [x \in DOMAIN m \cup {k} |-> IF x = k THEN v ELSE m[x]]
MapDelete(m, k) == [x \in DOMAIN m \ {k} |-> m[x]]

\* Object.assign(target, source)
ObjectAssign(target, source) ==
  [k \in DOMAIN target \cup DOMAIN source |->
     IF k \in DOMAIN source THEN source[k] ELSE target[k]]

\* JSON.stringify of a flat object: members whose value is undefined are left out
JSONStringify(payload) ==
  [k \in {x \in DOMAIN payload : payload[x] # Undefined} |-> payload[k]]

\* the text socket.send is given: JSON.stringify writes the object, its
\* members between the braces (the command stands for them), and nothing
\* after the closing brace
SentText(frame) == <<"{", frame.command, "}">>

NoArguments == "{}"
NoArgs == <<>>

\* WebSocket.send: an open transport takes the frame; a closing or closed
\* one drops it silently; a connecting one throws InvalidStateError, or
\* queues the frame where the transport buffers writes until it is connected
send(socket, text) ==
  LET entry == [frame |-> text, readyState |-> socket.readyState]
  IN  CASE socket.readyState = "OPEN" ->
             [throws |-> FALSE, socket |-> [socket EXCEPT !.sent = Append(@, entry)]]
        [] socket.readyState = "CONNECTING" /\ transport = "queue" ->
             [throws |-> FALSE, socket |-> [socket EXCEPT !.sent = Append(@, entry)]]
        [] socket.readyState = "CONNECTING" /\ transport = "throw" ->
             [throws |-> TRUE, socket |-> socket]
        [] OTHER -> [throws |-> FALSE, socket |-> socket]

\* WebSocket.close
close(socket) ==
  IF socket.readyState \in {"CONNECTING", "OPEN"}
  THEN [socket EXCEPT !.readyState = "CLOSING"]
  ELSE socket

\* the endpoints of the broker
Config ==
  [LIVE_ENDPOINT |-> "wss://ws.xtb.com/real",
   LIVE_ENDPOINT_STREAM |-> "wss://ws.xtb.com/realStream",
   DEMO_ENDPOINT |-> "wss://ws.xtb.com/demo",
   DEMO_ENDPOINT_STREAM |-> "wss://ws.xtb.com/realStream"]

\* XApiClient.#endpoint and #streamEndpoint, as the constructor sets them
Endpoint == IF isDemo THEN Config.DEMO_ENDPOINT ELSE Config.LIVE_ENDPOINT

StreamEndpoint ==
  IF isDemo THEN Config.DEMO_ENDPOINT_STREAM ELSE Config.LIVE_ENDPOINT_STREAM

\* _connectSocket
connectSocket(name, endpoint) ==
  IF name \in DOMAIN sockets
  THEN [socket |-> sockets[name], ws |-> ws, sockets |-> sockets, data |-> data]
  ELSE LET socket == Len(ws) + 1
       IN  [socket |-> socket,
            ws |-> Append(ws, [name |-> name, endpoint |-> endpoint,
                               readyState |-> "CONNECTING", sent |-> <<>>]),
            sockets |-> MapSet(sockets, name, socket),
            data |-> MapSet(data, socket, <<>>)]

CanConnect(name) == name \in DOMAIN sockets \/ Len(ws) < MaxSockets

\* the test of line 306 never finds the connection
hasSocketNever(customTag) == FALSE

\* this.#sockets.has(customTag) of _streamOperation
hasSocket(customTag) == customTag \in DOMAIN sockets

\* EventTarget2.off: only the name is forgotten
off(eventName) == eventsListened \ {eventName}

\* EventTarget2.once: a listener that is never removed, and its promise
once(eventName, id) == [type |-> eventName, kind |-> "once", id |-> id]

\* _callOperation: the promise it returns, and what it did to the sockets and
\* to the listener list
callOperation(method, customTag, operationName, args) ==
  LET id == Len(calls) + 1
      call == [method |-> method, customTag |-> customTag,
               operationName |-> operationName, waitOn |-> {},
               state |-> "rejected", value |-> Undefined, by |-> Undefined,
               seen |-> <<>>]
      bare == [command |-> operationName, customTag |-> customTag]
      payload == IF args # NoArguments
                 THEN ObjectAssign(bare, [arguments |-> args]) ELSE bare
  IN  IF ~isLoggedIn
      THEN [calls |-> Append(calls, [call EXCEPT !.value = "Not logged in"]),
            ws |-> ws, listeners |-> listeners]
      ELSE IF "operation" \notin DOMAIN sockets
      THEN [calls |-> Append(calls, [call EXCEPT !.value = "Could not find socket"]),
            ws |-> ws, listeners |-> listeners]
      ELSE LET socket == sockets["operation"]
               sent == send(ws[socket], JSONStringify(payload))
           IN  IF sent.throws
               THEN [calls |-> Append(calls, [call EXCEPT !.value = "InvalidStateError"]),
                     ws |-> ws, listeners |-> listeners]
               ELSE [calls |-> Append(calls, [call EXCEPT !.state = "pending",
                                                          !.waitOn = {operationName}]),
                     ws |-> [ws EXCEPT ![socket] = sent.socket],
                     listeners |-> listeners \cup {once(operationName, id)}]

\* ------------------------------------------------------------- the methods
CallMethods ==
  {[method |-> "getCalendar", customTag |-> CALENDAR,
    operationName |-> "getCalendar", args |-> NoArguments]}

StreamMethods ==
  {[method |-> "streamTrades", customTag |-> STREAM_TRADES,
    command |-> "getTrades", args |-> NoArgs]}

StopMethods ==
  {[method |-> "stopStreamTrades", customTag |-> STREAM_TRADES,
    stopCommand |-> "stopTrades", args |-> NoArgs]}

Returned(method, value) == [method |-> method, outcome |-> "returned", value |-> value]
Thrown(method, value) == [method |-> method, outcome |-> "thrown", value |-> value]

\* login, up to the await of the race
login ==
  /\ nops < MaxOps
  /\ CanConnect("operation")
  /\ LET errorEventType == ERROR_PREFIX \o LOGIN
         c == connectSocket("operation", Endpoint)
         id == Len(calls) + 1
         payload == [command |-> "login", arguments |-> "userId,password",
                     customTag |-> LOGIN]
         sent == send(c.ws[c.socket], JSONStringify(payload))
         call == [method |-> "login", customTag |-> LOGIN,
                  operationName |-> "login", waitOn |-> {},
                  state |-> "rejected", value |-> Undefined, by |-> Undefined,
                  seen |-> <<>>]
     IN  /\ sockets' = c.sockets
         /\ data' = c.data
         /\ IF sent.throws
            THEN /\ ws' = c.ws
                 /\ calls' = Append(calls, [call EXCEPT !.value = "InvalidStateError"])
                 /\ listeners' = listeners
            ELSE /\ ws' = [c.ws EXCEPT ![c.socket] = sent.socket]
                 /\ calls' = Append(calls, [call EXCEPT !.state = "pending",
                                                        !.waitOn = {errorEventType, LOGIN}])
                 /\ listeners' = listeners \cup {once(errorEventType, id), once(LOGIN, id)}
  /\ ret' = Returned("login", "Promise")
  /\ nops' = nops + 1
  /\ UNCHANGED <<transport, isDemo, isLoggedIn, streamSessionId, eventsListened, gens,
                 nrecv, loginReplied>>
  /\ UNCHANGED parserVars
  /\ UNCHANGED resultVars

\* a method that returns the promise of _callOperation (getCalendar, ...)
CallOperation(m) ==
  /\ nops < MaxOps
  /\ LET c == callOperation(m.method, m.customTag, m.operationName, m.args)
     IN  /\ calls' = c.calls
         /\ ws' = c.ws
         /\ listeners' = c.listeners
  /\ ret' = Returned(m.method, "Promise")
  /\ nops' = nops + 1
  /\ UNCHANGED <<transport, isDemo, isLoggedIn, streamSessionId, sockets, data,
                 eventsListened, gens, nrecv, loginReplied>>
  /\ UNCHANGED parserVars
  /\ UNCHANGED resultVars

\* ping: the promise of _callOperation is dropped
ping ==
  /\ nops < MaxOps
  /\ LET c == callOperation("ping", PING, "ping", NoArguments)
     IN  /\ calls' = c.calls
         /\ ws' = c.ws
         /\ listeners' = c.listeners
  /\ ret' = Returned("ping", Undefined)
  /\ nops' = nops + 1
  /\ UNCHANGED <<transport, isDemo, isLoggedIn, streamSessionId, sockets, data,
                 eventsListened, gens, nrecv, loginReplied>>
  /\ UNCHANGED parserVars
  /\ UNCHANGED resultVars

\* logout: the promise of _callOperation is dropped, then the teardown
logout ==
  /\ nops < MaxOps
  /\ LET c == callOperation("logout", LOGOUT, "logout", NoArguments)
         registered == {sockets[key] : key \in DOMAIN sockets}
     IN  /\ calls' = c.calls
         /\ listeners' = c.listeners
         /\ ws' = [socket \in DOMAIN c.ws |->
                     IF socket \in registered THEN close(c.ws[socket])
                     ELSE c.ws[socket]]
  /\ isLoggedIn' = FALSE
  /\ sockets' = EmptyMap
  /\ streamSessionId' = ""
  /\ ret' = Returned("logout", Undefined)
  /\ nops' = nops + 1
  /\ loginReplied' = [loginReplied EXCEPT !.last = ""]
  /\ UNCHANGED <<transport, isDemo, data, eventsListened, gens, nrecv>>
  /\ UNCHANGED parserVars
  /\ UNCHANGED resultVars

\* _streamOperation with EventTarget2.on, from the consumer's first next()
\* up to the first await of the event promise
streamOperation(m) ==
  /\ nops < MaxOps
  /\ (isLoggedIn /\ m.customTag \notin DOMAIN sockets) => Len(ws) < MaxSockets
  /\ LET id == Len(gens) + 1
         gen == [method |-> m.method, customTag |-> m.customTag,
                 command |-> m.command, state |-> "failed",
                 error |-> Undefined, delivered |-> <<>>,
                 expected |-> <<>>, stop |-> "none"]
     IN  IF ~isLoggedIn
         THEN /\ gens' = Append(gens, [gen EXCEPT !.error = "Not logged in"])
              /\ UNCHANGED <<sockets, data, ws, eventsListened, listeners>>
         ELSE IF hasSocket(m.customTag)
         THEN /\ gens' = Append(gens, [gen EXCEPT !.state = "done"])
              /\ UNCHANGED <<sockets, data, ws, eventsListened, listeners>>
         ELSE LET c == connectSocket(m.customTag, StreamEndpoint)
                  payload == ObjectAssign([command |-> m.command,
                                           customTag |-> m.customTag], m.args)
                  sent == send(c.ws[c.socket], JSONStringify(payload))
              IN  /\ sockets' = MapSet(c.sockets, m.customTag, c.socket)
                  /\ data' = c.data
                  /\ IF sent.throws
                     THEN /\ ws' = c.ws
                          /\ gens' = Append(gens, [gen EXCEPT !.error = "InvalidStateError"])
                          /\ UNCHANGED <<eventsListened, listeners>>
                     ELSE /\ ws' = [c.ws EXCEPT ![c.socket] = sent.socket]
                          /\ IF m.customTag \in eventsListened
                             THEN /\ gens' = Append(gens, [gen EXCEPT !.state = "done"])
                                  /\ UNCHANGED <<eventsListened, listeners>>
                             ELSE /\ gens' = Append(gens, [gen EXCEPT !.state = "waiting"])
                                  /\ eventsListened' = eventsListened \cup {m.customTag}
                                  /\ listeners' = listeners \cup
                                       {[type |-> "eventName", kind |-> "on", id |-> id]}
  /\ ret' = Returned(m.method, "AsyncGenerator")
  /\ nops' = nops + 1
  /\ UNCHANGED <<transport, isDemo, isLoggedIn, streamSessionId, calls, nrecv, loginReplied>>
  /\ UNCHANGED parserVars
  /\ UNCHANGED resultVars

\* the generators of a tag that are in their loop learn how a stop ended
Stopped(customTag, how) ==
  [i \in DOMAIN gens |->
     IF gens[i].customTag = customTag /\ gens[i].state = "waiting"
     THEN [gens[i] EXCEPT !.stop = how] ELSE gens[i]]

\* _stopStreaming with the call of off() moved before the test of line 275
stopStreamingOffFirst(m) ==
  /\ nops < MaxOps
  /\ eventsListened' = off(m.customTag)
  /\ IF m.customTag \notin DOMAIN sockets
     THEN /\ ret' = Returned(m.method, "false")
          /\ UNCHANGED <<sockets, ws, gens>>
     ELSE LET socket == sockets[m.customTag]
              payload == ObjectAssign([command |-> m.stopCommand,
                                       streamSessionId |-> streamSessionId], m.args)
              sent == send(ws[socket], JSONStringify(payload))
          IN  IF sent.throws
              THEN /\ ret' = Thrown(m.method, "InvalidStateError")
                   /\ gens' = Stopped(m.customTag, "thrown")
                   /\ UNCHANGED <<sockets, ws>>
              ELSE /\ ws' = [ws EXCEPT ![socket] = close(sent.socket)]
                   /\ sockets' = MapDelete(sockets, m.customTag)
                   /\ gens' = Stopped(m.customTag, "true")
                   /\ ret' = Returned(m.method, "true")
  /\ nops' = nops + 1
  /\ UNCHANGED <<transport, isDemo, isLoggedIn, streamSessionId, data, listeners, calls,
                 nrecv, loginReplied>>
  /\ UNCHANGED parserVars
  /\ UNCHANGED resultVars

\* _stopStreaming with EventTarget2.off
stopStreaming(m) ==
  /\ nops < MaxOps
  /\ IF m.customTag \notin DOMAIN sockets
     THEN /\ ret' = Returned(m.method, "false")
          /\ UNCHANGED <<sockets, ws, eventsListened, gens>>
     ELSE LET socket == sockets[m.customTag]
              payload == ObjectAssign([command |-> m.stopCommand,
                                       streamSessionId |-> streamSessionId], m.args)
              sent == send(ws[socket], JSONStringify(payload))
          IN  /\ eventsListened' = off(m.customTag)
              /\ IF sent.throws
                 THEN /\ ret' = Thrown(m.method, "InvalidStateError")
                      /\ gens' = Stopped(m.customTag, "thrown")
                      /\ UNCHANGED <<sockets, ws>>
                 ELSE /\ ws' = [ws EXCEPT ![socket] = close(sent.socket)]
                      /\ sockets' = MapDelete(sockets, m.customTag)
                      /\ gens' = Stopped(m.customTag, "true")
                      /\ ret' = Returned(m.method, "true")
  /\ nops' = nops + 1
  /\ UNCHANGED <<transport, isDemo, isLoggedIn, streamSessionId, data, listeners, calls,
                 nrecv, loginReplied>>
  /\ UNCHANGED parserVars
  /\ UNCHANGED resultVars

\* ------------------------------------------------------ the socket callbacks
\* the transport finishes opening
onopen(socket) ==
  /\ socket \in DOMAIN ws
  /\ ws[socket].readyState = "CONNECTING"
  /\ ws' = [ws EXCEPT ![socket].readyState = "OPEN"]
  /\ UNCHANGED <<transport, isDemo, isLoggedIn, streamSessionId, sockets, data,
                 eventsListened, listeners, calls, gens, ret, nops, nrecv, loginReplied>>
  /\ UNCHANGED parserVars
  /\ UNCHANGED resultVars

\* socket.onclose of _connectSocket: a code other than 1000 throws before
\* anything is removed
onclose(socket, code) ==
  /\ socket \in DOMAIN ws
  /\ ws[socket].readyState # "CLOSED"
  /\ ws' = [ws EXCEPT ![socket].readyState = "CLOSED"]
  /\ IF code # NormalClosure
     THEN UNCHANGED <<sockets, data>>
     ELSE /\ sockets' = MapDelete(sockets, ws[socket].name)
          /\ data' = MapDelete(data, socket)
  /\ UNCHANGED <<transport, isDemo, isLoggedIn, streamSessionId, eventsListened,
                 listeners, calls, gens, ret, nops, nrecv, loginReplied>>
  /\ UNCHANGED parserVars
  /\ UNCHANGED resultVars

\* the first of the events a promise waits on, 0 when there is none
FirstEvent(events, waitOn) ==
  LET hits == {i \in 1..Len(events) : events[i].type \in waitOn}
  IN  IF hits = {} THEN 0 ELSE Min(hits)

\* the object an ERROR_ event carries
ErrorDetail(detail) == ResponseObj(<<detail>>)

\* the events dispatched under a call's tag, as a success or as a failure
UnderTag(events, customTag) ==
  SelectSeq(events, LAMBDA e : e.type \in {customTag, ERROR_PREFIX \o customTag})

\* the continuation of login without the test of the event's type: the
\* failure event settles the login like the success event
SettleWithoutErrorTest(call, events) ==
  LET first == FirstEvent(events, call.waitOn)
      event == events[first]
      upto == IF first = 0 THEN events ELSE SubSeq(events, 1, first)
      noted == [call EXCEPT !.seen = @ \o UnderTag(upto, call.customTag)]
  IN  IF call.state # "pending" THEN call
      ELSE IF first = 0 THEN noted
      ELSE IF call.method = "login"
      THEN [noted EXCEPT !.state = "resolved", !.by = event.type, !.value = "true"]
      ELSE [noted EXCEPT !.state = "resolved", !.by = event.type,
                         !.value = event.detail]

\* the continuation of the await in _callOperation and in login; seen keeps
\* the events dispatched under the call's tag while it was pending
Settle(call, events) ==
  LET first == FirstEvent(events, call.waitOn)
      event == events[first]
      upto == IF first = 0 THEN events ELSE SubSeq(events, 1, first)
      noted == [call EXCEPT !.seen = @ \o UnderTag(upto, call.customTag)]
  IN  IF call.state # "pending" THEN call
      ELSE IF first = 0 THEN noted
      ELSE IF call.method = "login" /\ event.type = ERROR_PREFIX \o LOGIN
      THEN [noted EXCEPT !.state = "rejected", !.by = event.type,
                         !.value = "Could not log in: "
                                   \o ErrorDetail(event.detail).errorDescr \o " ("
                                   \o ErrorDetail(event.detail).errorCode \o ")"]
      ELSE IF call.method = "login"
      THEN [noted EXCEPT !.state = "resolved", !.by = event.type, !.value = "true"]
      ELSE [noted EXCEPT !.state = "resolved", !.by = event.type,
                         !.value = event.detail]

Details(events, type) ==
  LET hits == SelectSeq(events, LAMBDA e : e.type = type)
  IN  [i \in 1..Len(hits) |-> hits[i].detail]

\* the callback of EventTarget2.on and the loop it wakes: the items go to
\* the consumer, then the loop looks at #eventsListened
Resume(gen, events) ==
  LET items == Details(events, "eventName")
      under == Details(events, gen.customTag)
  IN  IF gen.state # "waiting" THEN gen
      ELSE [gen EXCEPT
              !.delivered = @ \o items,
              !.expected = IF gen.stop = "none" THEN @ \o under ELSE @,
              !.state = IF items # <<>> /\ gen.customTag \notin eventsListened
                        THEN "done" ELSE "waiting"]

\* one partial-frame buffer for the whole client: the buffer of the first
\* connection, whichever connection has received
dataGetFirst(socket) == data[Min(DOMAIN data)]

\* this.#data.get(socket)
dataGet(socket) == data[socket]

\* socket.onmessage: _parseResponse, then the continuations it has woken
onmessage(socket, rcvd) ==
  /\ nrecv < MaxRecv
  /\ socket \in DOMAIN ws
  /\ ws[socket].readyState = "OPEN"
  /\ socket \in DOMAIN data
  /\ LET split == SplitResponses(dataGet(socket), rcvd)
         events == EventsOf(ParsedPrefix(split.responses))
         settled == [i \in DOMAIN calls |-> Settle(calls[i], events)]
         loggedIn == {i \in DOMAIN calls :
                        /\ calls[i].method = "login"
                        /\ calls[i].state = "pending"
                        /\ settled[i].state = "resolved"}
         resumed == [i \in DOMAIN gens |-> Resume(gens[i], events)]
         finished == {i \in DOMAIN gens :
                        gens[i].state = "waiting" /\ resumed[i].state = "done"}
     IN  /\ data' = [data EXCEPT ![socket] = split.remainder]
         /\ calls' = settled
         /\ IF loggedIn = {}
            THEN UNCHANGED <<streamSessionId, isLoggedIn>>
            ELSE /\ streamSessionId' =
                      events[FirstEvent(events, {ERROR_PREFIX \o LOGIN, LOGIN})].detail
                 /\ isLoggedIn' = TRUE
         /\ loginReplied' =
              [n |-> loginReplied.n + Len(UnderTag(events, LOGIN)),
               last |-> IF Details(events, LOGIN) = <<>> THEN loginReplied.last
                        ELSE Details(events, LOGIN)[Len(Details(events, LOGIN))]]
         /\ gens' = resumed
         /\ listeners' = listeners \
              {[type |-> gens[i].customTag, kind |-> "on", id |-> i] : i \in finished}
  /\ nrecv' = nrecv + 1
  /\ UNCHANGED <<transport, isDemo, sockets, ws, eventsListened, ret, nops>>
  /\ UNCHANGED parserVars
  /\ UNCHANGED resultVars

\* what the broker sends in one chunk: a whole frame, or a frame cut in two
\* before its closing brace
FrameHead(r) == <<"{", RespId(r)>>
FrameTail == <<"}", NL, NL>>
CutResponses == {r \in AllResponses : r.status /\ r.customTag = PING}
Chunks ==
  {WireFrame(r) : r \in AllResponses}
  \cup {FrameHead(r) : r \in CutResponses}
  \cup {FrameTail}

\* the codes a CloseEvent may carry: normal closure and abnormal closure
CloseCodes == {NormalClosure, 1006}

\* ---------------------------------------------------------- specification
Init ==
  /\ transport \in {"throw", "queue"}
  /\ isDemo \in BOOLEAN
  /\ isLoggedIn = FALSE
  /\ streamSessionId = Undefined
  /\ sockets = EmptyMap
  /\ data = EmptyMap
  /\ ws = <<>>
  /\ eventsListened = {}
  /\ listeners = {}
  /\ calls = <<>>
  /\ gens = <<>>
  /\ ret = Returned("constructor", Undefined)
  /\ nops = 0
  /\ nrecv = 0
  /\ loginReplied = [n |-> 0, last |-> ""]
  /\ pfFrames = <<>>
  /\ pfChunks = <<>>
  /\ pfData = <<>>
  /\ pfOut = <<>>
  /\ pfEvents = <<>>
  /\ pfThrown = FALSE
  /\ awaited = NoCall
  /\ result = NoResult

Next ==
  \/ login
  \/ logout
  \/ ping
  \/ \E m \in CallMethods : CallOperation(m)
  \/ \E m \in StreamMethods : streamOperation(m)
  \/ \E m \in StopMethods : stopStreaming(m)
  \/ \E socket \in 1..MaxSockets : onopen(socket)
  \/ \E socket \in 1..MaxSockets, code \in CloseCodes : onclose(socket, code)
  \/ \E socket \in 1..MaxSockets, rcvd \in Chunks : onmessage(socket, rcvd)

Spec == Init /\ [][Next]_vars

\* ------------------------------------------------- the frame parser alone
\* JSON objects as the broker may write them: {"v":"x"} and {"v":"x y"}
FrameTexts == {<<"{", "x", "}">>, <<"{", "x", SP, "y", "}">>}

FrameSeqs == UNION {[1..n -> FrameTexts] : n \in 1..MaxFrames}

RECURSIVE WireOf(_)
WireOf(frames) ==
  IF frames = <<>> THEN <<>>
  ELSE Head(frames) \o <<NL, NL>> \o WireOf(Tail(frames))

CutSets(wire) ==
  {C \in SUBSET (1..(Len(wire) - 1)) : Cardinality(C) <= MaxCuts}

\* the chunks a wire arrives in when it is cut after the positions of cuts
RECURSIVE Pieces(_, _, _)
Pieces(wire, cuts, from) ==
  IF cuts = {} THEN <<SubSeq(wire, from, Len(wire))>>
  ELSE LET c == Min(cuts)
       IN  <<SubSeq(wire, from, c)>> \o Pieces(wire, cuts \ {c}, c + 1)

InitParse ==
  /\ transport = "throw"
  /\ isDemo = FALSE
  /\ isLoggedIn = FALSE
  /\ streamSessionId = Undefined
  /\ sockets = EmptyMap
  /\ data = EmptyMap
  /\ ws = <<>>
  /\ eventsListened = {}
  /\ listeners = {}
  /\ calls = <<>>
  /\ gens = <<>>
  /\ ret = Returned("constructor", Undefined)
  /\ nops = 0
  /\ nrecv = 0
  /\ loginReplied = [n |-> 0, last |-> ""]
  /\ pfFrames \in FrameSeqs
  /\ \E cuts \in CutSets(WireOf(pfFrames)) :
       pfChunks = Pieces(WireOf(pfFrames), cuts, 1)
  /\ pfData = <<>>
  /\ pfOut = <<>>
  /\ pfEvents = <<>>
  /\ pfThrown = FALSE
  /\ awaited = NoCall
  /\ result = NoResult

\* one chunk arrives on the connection: _parseResponse
Feed ==
  /\ pfChunks # <<>>
  /\ LET split == SplitResponses(pfData, Head(pfChunks))
     IN  /\ pfData' = split.remainder
         /\ pfOut' = pfOut \o ParsedPrefix(split.responses)
         /\ pfEvents' = pfEvents \o EventsOf(ParsedPrefix(split.responses))
         /\ pfThrown' = (pfThrown \/ ParseThrows(split.responses))
  /\ pfChunks' = Tail(pfChunks)
  /\ UNCHANGED pfFrames
  /\ UNCHANGED clientVars
  /\ UNCHANGED resultVars

NextParse == Feed

SpecParse == InitParse /\ [][NextParse]_vars

\* chunks that hold nothing but spaces and newlines, the empty chunk included
BlankChunks == UNION {[1..n -> {SP, NL}] : n \in 0..MaxBlank}

\* a connection with an empty remainder is about to receive blank chunks
InitBlank ==
  /\ transport = "throw"
  /\ isDemo = FALSE
  /\ isLoggedIn = FALSE
  /\ streamSessionId = Undefined
  /\ sockets = EmptyMap
  /\ data = EmptyMap
  /\ ws = <<>>
  /\ eventsListened = {}
  /\ listeners = {}
  /\ calls = <<>>
  /\ gens = <<>>
  /\ ret = Returned("constructor", Undefined)
  /\ nops = 0
  /\ nrecv = 0
  /\ loginReplied = [n |-> 0, last |-> ""]
  /\ pfFrames = <<>>
  /\ pfChunks \in UNION {[1..n -> BlankChunks] : n \in 1..MaxBlanks}
  /\ pfData = <<>>
  /\ pfOut = <<>>
  /\ pfEvents = <<>>
  /\ pfThrown = FALSE
  /\ awaited = NoCall
  /\ result = NoResult

SpecBlank == InitBlank /\ [][NextParse]_vars

\* the responses of the broker as texts on the wire
ResponseTexts == {<<"{", RespId(r), "}">> : r \in AllResponses}

ResponseSeqs == UNION {[1..n -> ResponseTexts] : n \in 1..MaxFrames}

\* a connection is about to receive responses of the broker, all in one
\* chunk or one chunk for each
InitDispatch ==
  /\ transport = "throw"
  /\ isDemo = FALSE
  /\ isLoggedIn = FALSE
  /\ streamSessionId = Undefined
  /\ sockets = EmptyMap
  /\ data = EmptyMap
  /\ ws = <<>>
  /\ eventsListened = {}
  /\ listeners = {}
  /\ calls = <<>>
  /\ gens = <<>>
  /\ ret = Returned("constructor", Undefined)
  /\ nops = 0
  /\ nrecv = 0
  /\ loginReplied = [n |-> 0, last |-> ""]
  /\ pfFrames \in ResponseSeqs
  /\ pfChunks \in {<<WireOf(pfFrames)>>,
                   [i \in 1..Len(pfFrames) |-> WireOf(<<pfFrames[i]>>)]}
  /\ pfData = <<>>
  /\ pfOut = <<>>
  /\ pfEvents = <<>>
  /\ pfThrown = FALSE
  /\ awaited = NoCall
  /\ result = NoResult

SpecDispatch == InitDispatch /\ [][NextParse]_vars

FramesOf(frames) == [i \in 1..Len(frames) |-> JSONParse(frames[i]).value]

\* ------------------------------------ what the methods make of a reply
Quotes == {1, 2}
StatusResponses == [ask : Quotes, bid : Quotes, order : {7}]

MarginResponses ==
  [margin_free : {0, 100}, margin_level : {0, 50}, balance : {1000}]

RawPrices == {12345, 12350}
RateInfos ==
  [open : RawPrices, close : RawPrices, high : RawPrices, low : RawPrices,
   ctm : {0}, vol : {1}]
ChartInfos ==
  [digits : 0..MaxDigits,
   rateInfos : UNION {[1..n -> RateInfos] : n \in 0..MaxCandles}]
Symbols == {"EURUSD", "USDJPY"}

RECURSIVE Pow10(_)
Pow10(n) == IF n = 0 THEN 1 ELSE 10 * Pow10(n - 1)

\* a price divided by 10 ** digits; numbers are counted in units of
\* 10 ** -MaxDigits, so that 12345 / 10 ** 2 is 12345 units of 0.01
Divided(price, digits) == (price * Pow10(MaxDigits)) \div Pow10(digits)

\* tradeTransactionStatus after its await, without the test of ask and bid
tradeTransactionStatusUntested(response) ==
  [outcome |-> "returned",
   value |-> ObjectAssign(response, [price |-> response.ask])]

\* tradeTransactionStatus after its await, lines 844-850
tradeTransactionStatusReturn(response) ==
  IF response.ask # response.bid
  THEN [outcome |-> "thrown", value |-> "Error retrieving transaction price"]
  ELSE [outcome |-> "returned",
        value |-> ObjectAssign(response, [price |-> response.ask])]

\* getMarginLevel after its await with marginLevel taken from margin_free
getMarginLevelSameField(response) ==
  [outcome |-> "returned",
   value |-> ObjectAssign(response, [marginFree |-> response.margin_free,
                                     marginLevel |-> response.margin_free])]

\* getMarginLevel after its await, lines 428-430
getMarginLevelReturn(response) ==
  [outcome |-> "returned",
   value |-> ObjectAssign(response, [marginFree |-> response.margin_free,
                                     marginLevel |-> response.margin_level])]

\* _processChartRequest with the close price left as it was received
processChartRequestCloseRaw(chartInfo, symbol) ==
  [i \in 1..Len(chartInfo.rateInfos) |->
     LET response == chartInfo.rateInfos[i]
     IN  [ObjectAssign(response, [symbol |-> symbol]) EXCEPT
            !.open = Divided(response.open, chartInfo.digits),
            !.high = Divided(response.high, chartInfo.digits),
            !.low = Divided(response.low, chartInfo.digits)]]

\* _processChartRequest
processChartRequest(chartInfo, symbol) ==
  [i \in 1..Len(chartInfo.rateInfos) |->
     LET response == chartInfo.rateInfos[i]
     IN  [ObjectAssign(response, [symbol |-> symbol]) EXCEPT
            !.close = Divided(response.close, chartInfo.digits),
            !.open = Divided(response.open, chartInfo.digits),
            !.high = Divided(response.high, chartInfo.digits),
            !.low = Divided(response.low, chartInfo.digits)]]

\* a method has been called and its call has resolved with a reply
InitResult ==
  /\ transport = "throw"
  /\ isDemo = FALSE
  /\ isLoggedIn = FALSE
  /\ streamSessionId = Undefined
  /\ sockets = EmptyMap
  /\ data = EmptyMap
  /\ ws = <<>>
  /\ eventsListened = {}
  /\ listeners = {}
  /\ calls = <<>>
  /\ gens = <<>>
  /\ ret = Returned("constructor", Undefined)
  /\ nops = 0
  /\ nrecv = 0
  /\ loginReplied = [n |-> 0, last |-> ""]
  /\ pfFrames = <<>>
  /\ pfChunks = <<>>
  /\ pfData = <<>>
  /\ pfOut = <<>>
  /\ pfEvents = <<>>
  /\ pfThrown = FALSE
  /\ awaited \in
       {[method |-> "tradeTransactionStatus", symbol |-> Undefined,
         response |-> r] : r \in StatusResponses}
       \cup {[method |-> "getMarginLevel", symbol |-> Undefined,
              response |-> r] : r \in MarginResponses}
       \cup {[method |-> "getChartLastRequest", symbol |-> y,
              response |-> r] : y \in Symbols, r \in ChartInfos}
  /\ result = NoResult

\* the continuation of the await in tradeTransactionStatus
tradeTransactionStatus ==
  /\ awaited.method = "tradeTransactionStatus"
  /\ result = NoResult
  /\ result' = tradeTransactionStatusReturn(awaited.response)
  /\ UNCHANGED <<awaited>>
  /\ UNCHANGED clientVars
  /\ UNCHANGED parserVars

\* the continuation of the await in getMarginLevel
getMarginLevel ==
  /\ awaited.method = "getMarginLevel"
  /\ result = NoResult
  /\ result' = getMarginLevelReturn(awaited.response)
  /\ UNCHANGED <<awaited>>
  /\ UNCHANGED clientVars
  /\ UNCHANGED parserVars

\* the continuation of the await in getChartLastRequest
getChartLastRequest ==
  /\ awaited.method = "getChartLastRequest"
  /\ result = NoResult
  /\ result' = [outcome |-> "returned",
                value |-> processChartRequest(awaited.response, awaited.symbol)]
  /\ UNCHANGED <<awaited>>
  /\ UNCHANGED clientVars
  /\ UNCHANGED parserVars

NextResult ==
  \/ tradeTransactionStatus
  \/ getMarginLevel
  \/ getChartLastRequest

SpecResult == InitResult /\ [][NextResult]_vars

\* ------------------------------------------ the stream types of the client
\* a stream method and its stop method, as they call _streamOperation and
\* _stopStreaming; how tells what the stream method does with the generator:
\* it returns it, it is itself an async generator that returns it unstarted,
\* or it drops it
StreamType(type, how, customTag, command, args, stopTag, stopCommand) ==
  [type |-> type, how |-> how,
   stream |-> [method |-> "stream" \o type, customTag |-> customTag,
               command |-> command, args |-> args],
   stop |-> [method |-> "stopStream" \o type, customTag |-> stopTag,
             stopCommand |-> stopCommand, args |-> NoArgs]]

StreamTypes ==
  {StreamType("Balance", "returned", "getBalance", STREAM_BALANCE, NoArgs,
              STREAM_BALANCE, "stopBalance"),
   StreamType("KeepAlive", "returned", "keepAlive", STREAM_KEEP_ALIVE, NoArgs,
              STREAM_KEEP_ALIVE, "stopKeepAlive"),
   StreamType("News", "wrapped", STREAM_NEWS, "getNews", NoArgs,
              STREAM_NEWS, "stopNews"),
   StreamType("Profits", "returned", STREAM_PROFITS, "getProfits", NoArgs,
              STREAM_PROFITS, "stopProfits"),
   StreamType("TradeStatus", "dropped", STREAM_TRADE_STATUS, "getTradeStatus",
              NoArgs, STREAM_TRADE_STATUS, "stopTradeStatus"),
   StreamType("Trades", "returned", STREAM_TRADES, "getTrades", NoArgs,
              STREAM_TRADES, "stopTrades")}
  \cup
  {StreamType("Candles", "returned", "getCandles", STREAM_CANDLES,
              [symbol |-> symbol], STREAM_CANDLES, "stopCandles")
     : symbol \in Symbols}
  \cup
  {StreamType("TickPrices", "wrapped", STREAM_TICK_PRICES, "streamTickPrices",
              [minArrivalTime |-> 0, symbol |-> symbol, maxLevel |-> Undefined],
              STREAM_TICK_PRICES \o "_" \o symbol, "stopTickPrices")
     : symbol \in Symbols}

\* a stream method whose generator of _streamOperation is never started: the
\* method is an async generator that returns it, or it drops it
streamUnstarted(t) ==
  /\ nops < MaxOps
  /\ t.how \in {"wrapped", "dropped"}
  /\ ret' = Returned(t.stream.method,
                     IF t.how = "wrapped" THEN "AsyncGenerator" ELSE Undefined)
  /\ nops' = nops + 1
  /\ UNCHANGED <<transport, isDemo, isLoggedIn, streamSessionId, sockets, data, ws,
                 eventsListened, listeners, calls, gens, nrecv, loginReplied>>
  /\ UNCHANGED parserVars
  /\ UNCHANGED resultVars

\* the client with every stream type, and a broker that accepts the login
NextStreams ==
  \/ login
  \/ \E t \in StreamTypes : t.how = "returned" /\ streamOperation(t.stream)
  \/ \E t \in StreamTypes : streamUnstarted(t)
  \/ \E t \in StreamTypes : stopStreaming(t.stop)
  \/ \E socket \in 1..MaxSockets : onopen(socket)
  \/ \E socket \in 1..MaxSockets, r \in AllResponses :
       r.status /\ r.customTag = LOGIN /\ onmessage(socket, WireFrame(r))

SpecStreams == Init /\ [][NextStreams]_vars

\* ------------------------------------- a chunk that holds a frame of no JSON
\* texts that are no JSON object: {"v":"x" and "v":"x"}
BadTexts == {<<"{", "x">>, <<"x", "}">>}

ChunkFrames == UNION {[1..n -> FrameTexts \cup BadTexts] : n \in 1..MaxPerChunk}

\* the start of a frame whose rest has not arrived yet
Fragments == {<<>>, <<"{", "x">>}

\* a connection with an empty remainder is about to receive, in one chunk,
\* complete frames and possibly the start of another
InitChunk ==
  /\ transport = "throw"
  /\ isDemo = FALSE
  /\ isLoggedIn = FALSE
  /\ streamSessionId = Undefined
  /\ sockets = EmptyMap
  /\ data = EmptyMap
  /\ ws = <<>>
  /\ eventsListened = {}
  /\ listeners = {}
  /\ calls = <<>>
  /\ gens = <<>>
  /\ ret = Returned("constructor", Undefined)
  /\ nops = 0
  /\ nrecv = 0
  /\ loginReplied = [n |-> 0, last |-> ""]
  /\ pfFrames \in ChunkFrames
  /\ \E fragment \in Fragments : pfChunks = <<WireOf(pfFrames) \o fragment>>
  /\ pfData = <<>>
  /\ pfOut = <<>>
  /\ pfEvents = <<>>
  /\ pfThrown = FALSE
  /\ awaited = NoCall
  /\ result = NoResult

SpecChunk == InitChunk /\ [][NextParse]_vars

\* ------------------------------------ two connections and their buffers
\* the chunks of the broker, and a login reply with the start of the next
\* frame behind it in the same chunk
BufferChunks ==
  Chunks \cup {WireFrame(r) \o FrameHead(h) :
                 r \in {x \in AllResponses : x.status /\ x.customTag = LOGIN},
                 h \in CutResponses}

\* a client that logs in, pings and subscribes, and hears from the broker
NextBuffers ==
  \/ login
  \/ ping
  \/ \E m \in StreamMethods : streamOperation(m)
  \/ \E socket \in 1..MaxSockets : onopen(socket)
  \/ \E socket \in 1..MaxSockets, rcvd \in BufferChunks : onmessage(socket, rcvd)

SpecBuffers == Init /\ [][NextBuffers]_vars

\* ------------------------------------------- the request of the last chart
\* XApiClient.Period: PERIOD_M1 and PERIOD_M5, and the start times
Periods == {"1", "5"}
Starts == {"0", "1000"}

\* {info: {period: period, start: start, symbol: symbol}}
ChartArguments(period, start, symbol) ==
  "{info:{period:" \o period \o ",start:" \o start \o ",symbol:" \o symbol \o "}}"

\* getChartLastRequest, up to its await: the call of _callOperation
ChartMethods ==
  {[method |-> "getChartLastRequest", customTag |-> CHART_LAST_REQUEST,
    operationName |-> "getCalendar",
    args |-> ChartArguments(period, start, symbol)] :
     period \in Periods, start \in Starts, symbol \in Symbols}

\* a client that logs in and asks for charts
NextChart ==
  \/ login
  \/ \E m \in ChartMethods : CallOperation(m)
  \/ \E socket \in 1..MaxSockets : onopen(socket)
  \/ \E socket \in 1..MaxSockets, r \in AllResponses :
       r.status /\ r.customTag = LOGIN /\ onmessage(socket, WireFrame(r))

SpecChart == Init /\ [][NextChart]_vars

\* ------------------------------------------------------------------ properties
\* C2: when every chunk of a wire of "\n\n"-terminated frames has been fed
\* to the parser of one connection, the responses parsed are exactly the
\* original frames in their order, however the wire was cut into chunks.
FramingRoundTrip ==
  pfChunks = <<>> => pfOut = FramesOf(pfFrames)

\* the step is an invocation of the method
Invoked(method) == nops' = nops + 1 /\ ret'.method = method

\* C1: a call of _callOperation with custom tag T resolves on the first
\* event named exactly T and on no other event, with the returnData of the
\* response that event carries.
TagCorrelation ==
  \A i \in DOMAIN calls :
    calls[i].method # "login" =>
      /\ calls[i].state = "resolved" =>
           /\ calls[i].by = calls[i].customTag
           /\ calls[i].seen # <<>>
           /\ calls[i].value = calls[i].seen[Len(calls[i].seen)].detail
      /\ calls[i].state = "pending" =>
           \A k \in 1..Len(calls[i].seen) :
             calls[i].seen[k].type # calls[i].customTag

RECURSIVE IsSubSeq(_, _)
IsSubSeq(a, b) ==
  IF a = <<>> THEN TRUE
  ELSE IF b = <<>> THEN FALSE
  ELSE IF Head(a) = Head(b) THEN IsSubSeq(Tail(a), Tail(b))
  ELSE IsSubSeq(a, Tail(b))

\* C3: while a subscription for tag T is active (started, not stopped), the
\* returnData of every success response dispatched under T reaches its
\* consumer as an item, in dispatch order.
SubscriptionDelivery ==
  \A i \in DOMAIN gens :
    (gens[i].state = "waiting" /\ gens[i].stop = "none") =>
      IsSubSeq(gens[i].expected, gens[i].delivered)

PromiseMethods == {m.method : m \in CallMethods}
DroppedPromiseMethods == {"ping", "logout"}
GeneratorMethods == {m.method : m \in StreamMethods}

\* C4: while isLoggedIn is false, every call operation, stream operation,
\* ping and logout fails towards its caller with 'Not logged in' and writes
\* nothing to any socket.
PreAuthRejection ==
  [][(/\ ~isLoggedIn
      /\ nops' = nops + 1
      /\ ret'.method \in PromiseMethods \cup DroppedPromiseMethods \cup GeneratorMethods)
     => /\ \A socket \in DOMAIN ws : ws'[socket].sent = ws[socket].sent
        /\ DOMAIN ws' = DOMAIN ws
        /\ IF ret'.method \in GeneratorMethods
           THEN /\ Len(gens') = Len(gens) + 1
                /\ gens'[Len(gens')].state = "failed"
                /\ gens'[Len(gens')].error = "Not logged in"
           ELSE /\ Len(calls') = Len(calls) + 1
                /\ calls'[Len(calls')].state = "rejected"
                /\ calls'[Len(calls')].value = "Not logged in"
                /\ ret'.value = "Promise"]_vars

\* C5: streamOperation with a tag whose connection is registered opens no
\* connection, writes no frame, registers no listener and delivers nothing.
IdempotentSubscription ==
  [][\A m \in StreamMethods :
       (Invoked(m.method) /\ m.customTag \in DOMAIN sockets)
       => /\ ws' = ws
          /\ sockets' = sockets
          /\ data' = data
          /\ listeners' = listeners
          /\ eventsListened' = eventsListened
          /\ SubSeq(gens', 1, Len(gens)) = gens
          /\ gens'[Len(gens')].delivered = <<>>
          /\ gens'[Len(gens')].state \in {"done", "failed"}]_vars

\* a second streamOperation has returned while the first subscription of the
\* tag is in its loop and its connection is registered
IdempotentSubscriptionWitness ==
  \E i, j \in DOMAIN gens :
    /\ i < j
    /\ gens[i].customTag = gens[j].customTag
    /\ gens[i].state = "waiting"
    /\ gens[i].stop = "none"
    /\ gens[j].state = "done"
    /\ gens[i].customTag \in DOMAIN sockets
    /\ ret.method = gens[j].method

LoginFrame ==
  [command |-> "login", arguments |-> "userId,password", customTag |-> LOGIN]

\* C6: login registers the control connection and writes one login frame on
\* it, then waits; when the first login event is the success event the
\* session identifier becomes its streamSessionId, isLoggedIn becomes true
\* and login returns true.
LoginSuccess ==
  [][/\ Invoked("login")
        => /\ "operation" \in DOMAIN sockets'
           /\ LET socket == sockets'["operation"]
                  before == IF socket \in DOMAIN ws THEN ws[socket].sent ELSE <<>>
              IN  /\ Len(ws'[socket].sent) = Len(before) + 1
                  /\ ws'[socket].sent[Len(before) + 1].frame = LoginFrame
           /\ calls'[Len(calls')].state = "pending"
     /\ \A i \in DOMAIN calls :
          (/\ calls[i].method = "login"
           /\ calls[i].state = "pending"
           /\ calls'[i].seen # <<>>
           /\ calls'[i].seen[1].type = LOGIN)
          => /\ calls'[i].state = "resolved"
             /\ calls'[i].value = "true"
             /\ isLoggedIn'
             /\ streamSessionId' = calls'[i].seen[1].detail]_vars

\* the response whose members the symbol stands for
ResponseOfId(id) == CHOOSE r \in AllResponses : RespId(r) = id

\* C7: when the first login event a pending login sees is the failure event,
\* the login is rejected with the errorDescr and errorCode of that response,
\* and isLoggedIn and the session identifier are left as they were.
LoginFailure ==
  [][\A i \in DOMAIN calls :
       (/\ calls[i].method = "login"
        /\ calls[i].state = "pending"
        /\ calls'[i].seen # <<>>
        /\ calls'[i].seen[1].type = ERROR_PREFIX \o LOGIN)
       => /\ calls'[i].state = "rejected"
          /\ calls'[i].value =
               "Could not log in: "
               \o ResponseOfId(calls'[i].seen[1].detail).errorDescr \o " ("
               \o ResponseOfId(calls'[i].seen[1].detail).errorCode \o ")"
          /\ isLoggedIn' = isLoggedIn
          /\ streamSessionId' = streamSessionId]_vars

\* a login has been rejected by the broker's failure response
LoginFailureWitness ==
  \E i \in DOMAIN calls :
    /\ calls[i].method = "login"
    /\ calls[i].state = "rejected"
    /\ calls[i].by = ERROR_PREFIX \o LOGIN
    /\ ~isLoggedIn

\* C8: a call of _callOperation does not stay pending once a failure
\* response with its custom tag has been parsed.
OperationFailureRejects ==
  \A i \in DOMAIN calls :
    (calls[i].method # "login" /\ calls[i].state = "pending") =>
      \A k \in 1..Len(calls[i].seen) :
        calls[i].seen[k].type # ERROR_PREFIX \o calls[i].customTag

\* C9: stopStreaming with a tag whose connection is registered forgets the
\* tag's listener registration, writes exactly one stop frame with the
\* current session identifier on that connection, closes it, removes the
\* tag from the connection map and returns true.
StopStreamingActive ==
  [][\A m \in StopMethods :
       (Invoked(m.method) /\ m.customTag \in DOMAIN sockets)
       => LET socket == sockets[m.customTag]
          IN  /\ m.customTag \notin eventsListened'
              /\ Len(ws'[socket].sent) = Len(ws[socket].sent) + 1
              /\ ws'[socket].sent[Len(ws'[socket].sent)].frame =
                   JSONStringify(ObjectAssign(
                     [command |-> m.stopCommand,
                      streamSessionId |-> streamSessionId], m.args))
              /\ ws'[socket].readyState \in {"CLOSING", "CLOSED"}
              /\ m.customTag \notin DOMAIN sockets'
              /\ ret' = Returned(m.method, "true")]_vars

\* C10: once stopStreaming has returned true for a tag, the generators of
\* that tag have ended and their listener is no longer registered.
StopCancels ==
  \A i \in DOMAIN gens :
    gens[i].stop = "true" =>
      /\ gens[i].state = "done"
      /\ \A l \in listeners : ~(l.kind = "on" /\ l.id = i)

\* C11: stopStreaming with a tag that has no registered connection returns
\* false, writes nothing to any socket, and leaves the connection map, the
\* listener registrations and the session state as they were.
StopStreamingNoOp ==
  [][\A m \in StopMethods :
       (Invoked(m.method) /\ m.customTag \notin DOMAIN sockets)
       => /\ ret' = Returned(m.method, "false")
          /\ ws' = ws
          /\ sockets' = sockets
          /\ data' = data
          /\ listeners' = listeners
          /\ eventsListened' = eventsListened
          /\ gens' = gens
          /\ calls' = calls
          /\ isLoggedIn' = isLoggedIn
          /\ streamSessionId' = streamSessionId]_vars

\* a stop has returned false for a tag whose name is still listened to: its
\* connection was removed by a normal close or by a logout
StopStreamingNoOpWitness ==
  \E m \in StopMethods :
    /\ ret = Returned(m.method, "false")
    /\ m.customTag \in eventsListened
    /\ m.customTag \notin DOMAIN sockets

LogoutFrame == [command |-> "logout", customTag |-> LOGOUT]

\* C12: logout invoked while logged in writes the logout frame on the control
\* connection before closing it; afterwards isLoggedIn is false, every
\* connection that was registered is closing or closed, the connection map
\* is empty and the session identifier is cleared.
LogoutTearsDown ==
  [][(Invoked("logout") /\ isLoggedIn)
     => /\ "operation" \in DOMAIN sockets
        /\ LET socket == sockets["operation"]
           IN  /\ Len(ws'[socket].sent) = Len(ws[socket].sent) + 1
               /\ ws'[socket].sent[Len(ws'[socket].sent)].frame = LogoutFrame
               /\ ws'[socket].sent[Len(ws'[socket].sent)].readyState
                    \in {"CONNECTING", "OPEN"}
        /\ ~isLoggedIn'
        /\ \A key \in DOMAIN sockets :
             ws'[sockets[key]].readyState \in {"CLOSING", "CLOSED"}
        /\ sockets' = EmptyMap
        /\ streamSessionId' = ""]_vars

\* the step is the close event of the transport
Closes(socket) ==
  /\ socket \in DOMAIN ws
  /\ ws[socket].readyState # "CLOSED"
  /\ ws'[socket].readyState = "CLOSED"

\* C13: when a connection's transport closes, with whatever close code, the
\* connection is no longer registered under any name and its partial-frame
\* buffer is discarded.
CloseHandling ==
  [][\A socket \in 1..MaxSockets :
       Closes(socket)
       => /\ \A name \in DOMAIN sockets' : sockets'[name] # socket
          /\ socket \notin DOMAIN data']_vars

\* C14: at most one open transport exists for any connection name, and
\* every registered name is held by a transport opened under that name.
OneConnectionPerName ==
  /\ \A a, b \in DOMAIN ws :
       (/\ ws[a].name = ws[b].name
        /\ ws[a].readyState = "OPEN"
        /\ ws[b].readyState = "OPEN") => a = b
  /\ \A name \in DOMAIN sockets : ws[sockets[name]].name = name

\* C15: a tag has at most one outstanding waiter: no two pending calls of
\* _callOperation carry the same custom tag, no two subscriptions that are
\* in their loop and not stopped carry the same tag.
OneWaiterPerTag ==
  /\ \A i, j \in DOMAIN calls :
       (/\ calls[i].method # "login"
        /\ calls[j].method # "login"
        /\ calls[i].state = "pending"
        /\ calls[j].state = "pending"
        /\ calls[i].customTag = calls[j].customTag) => i = j
  /\ \A i, j \in DOMAIN gens :
       (/\ gens[i].state = "waiting" /\ gens[i].stop = "none"
        /\ gens[j].state = "waiting" /\ gens[j].stop = "none"
        /\ gens[i].customTag = gens[j].customTag) => i = j

\* a text without the whitespace that trim() may have taken from it
Stripped(text) == SelectSeq(text, LAMBDA c : ~IsSpace(c))

StrippedAll(texts) == [i \in 1..Len(texts) |-> Stripped(texts[i])]

\* C16: on one connection the responses are parsed and dispatched in the
\* order in which their frames arrived, whether two frames come in the same
\* chunk or in different chunks: what has been dispatched so far is, in this
\* order, a selection of the frames put on the wire.
PerConnectionOrdering ==
  IsSubSeq(StrippedAll(pfOut), StrippedAll(FramesOf(pfFrames)))

\* two different frames have both been parsed and dispatched
PerConnectionOrderingWitness ==
  /\ pfChunks = <<>>
  /\ Len(pfOut) = 2
  /\ pfOut[1] # pfOut[2]

\* the chunk ends with the terminator "\n\n"
EndsWithTerminator(rcvd) ==
  Len(rcvd) >= 2 /\ rcvd[Len(rcvd) - 1] = NL /\ rcvd[Len(rcvd)] = NL

\* C17: when the received chunk does not end with "\n\n", the last segment
\* of (remainder + chunk) becomes the new remainder and is not parsed; when
\* it ends with "\n\n" the remainder becomes empty.
HeldBackFragment ==
  [][pfChunks # <<>> =>
       LET rcvd == Head(pfChunks)
           segments == Split(Trim(pfData \o rcvd))
       IN  IF EndsWithTerminator(rcvd)
           THEN pfData' = <<>>
           ELSE /\ pfData' = segments[Len(segments)]
                /\ Len(pfOut') - Len(pfOut) <= Len(segments) - 1]_vars

\* C18: an accumulated buffer that is empty or whitespace-only yields no
\* frame, dispatches no event and raises no error.
EmptyInput ==
  pfOut = <<>> /\ ~pfThrown

\* C19: exactly one event is dispatched for each parsed response: for a
\* response with status true it is named by the customTag and carries the
\* returnData, or the streamSessionId when the tag is the login tag; for any
\* other response it is named ERROR_<customTag> and carries the response.
EventNaming ==
  /\ Len(pfEvents) = Len(pfOut)
  /\ \A i \in 1..Len(pfOut) :
       LET response == ResponseOfId(pfOut[i][1])
           event == pfEvents[i]
       IN  IF response.status
           THEN /\ event.type = response.customTag
                /\ event.detail = IF response.customTag = "login"
                                  THEN response.streamSessionId
                                  ELSE response.returnData
           ELSE /\ event.type = "ERROR_" \o response.customTag
                /\ ResponseOfId(event.detail) = response

\* a successful login response and a failure response have been dispatched
EventNamingWitness ==
  /\ pfChunks = <<>>
  /\ \E i, j \in 1..Len(pfEvents) :
       /\ pfEvents[i].type = LOGIN
       /\ pfEvents[i].detail \in Sids
       /\ pfEvents[j].type = ERROR_PREFIX \o PING

\* the login frames written so far, on whatever socket
LoginFramesWritten ==
  Cardinality({<<socket, k>> \in (DOMAIN ws) \X (1..(MaxOps + 1)) :
                 /\ k \in DOMAIN ws[socket].sent
                 /\ ws[socket].sent[k].frame.command = "login"})

\* C20: as long as the broker has sent no more login replies than login
\* frames were written, a session identifier that is not empty is the
\* streamSessionId of the most recent successful login reply received since
\* the last logout.
SessionIdLifecycle ==
  (loginReplied.n <= LoginFramesWritten /\ streamSessionId \notin {"", Undefined})
  => streamSessionId = loginReplied.last

\* C21: tradeTransactionStatus fails with an error when the reply's ask
\* differs from its bid, and otherwise returns the reply with price set to
\* its ask.
TransactionStatusConsistency ==
  (awaited.method = "tradeTransactionStatus" /\ result # NoResult)
  => IF awaited.response.ask = awaited.response.bid
     THEN /\ result.outcome = "returned"
          /\ result.value.price = awaited.response.ask
          /\ \A k \in DOMAIN awaited.response :
               result.value[k] = awaited.response[k]
     ELSE result.outcome = "thrown"

\* a reply whose ask differs from its bid has made the method fail
TransactionStatusConsistencyWitness ==
  /\ awaited.method = "tradeTransactionStatus"
  /\ awaited.response.ask # awaited.response.bid
  /\ result.outcome = "thrown"

MarginLevelRename ==
  (awaited.method = "getMarginLevel" /\ result # NoResult)
  => /\ result.outcome = "returned"
     /\ result.value.marginFree = awaited.response.margin_free
     /\ result.value.marginLevel = awaited.response.margin_level
     /\ \A k \in DOMAIN awaited.response : result.value[k] = awaited.response[k]

\* the reply {margin_free: 100, margin_level: 50} has been returned
MarginLevelRenameWitness ==
  /\ awaited.method = "getMarginLevel"
  /\ result.outcome = "returned"
  /\ awaited.response.margin_free = 100
  /\ awaited.response.margin_level = 50

\* C24: the close event of a transport that the client has unregistered and
\* closed leaves the connection that has since been registered under the same
\* name in the connection map.
LateCloseKeepsNewer ==
  [][\A socket \in 1..MaxSockets :
       (/\ Closes(socket)
        /\ ws[socket].name \in DOMAIN sockets
        /\ sockets[ws[socket].name] # socket)
       => /\ ws[socket].name \in DOMAIN sockets'
          /\ sockets'[ws[socket].name] = sockets[ws[socket].name]]_vars

\* what a step has appended to a sequence
Appended(before, after) == SubSeq(after, Len(before) + 1, Len(after))

\* the subscription was started after a subscription of its tag was stopped
Resubscribed(j) ==
  \E i \in 1..(j - 1) :
    gens[i].customTag = gens[j].customTag /\ gens[i].stop = "true"

\* C25: after stopStreaming(T) and a new streamOperation(T), an item
\* dispatched under T reaches the consumer of the new subscription, and the
\* consumer of the stopped subscription does not receive it.
StoppedStayStopped ==
  [][\A j \in DOMAIN gens :
       (/\ Resubscribed(j)
        /\ gens[j].state = "waiting"
        /\ gens[j].stop = "none"
        /\ Appended(gens[j].expected, gens'[j].expected) # <<>>)
       => /\ IsSubSeq(Appended(gens[j].expected, gens'[j].expected),
                      Appended(gens[j].delivered, gens'[j].delivered))
          /\ \A i \in 1..(j - 1) :
               (gens[i].customTag = gens[j].customTag /\ gens[i].stop = "true")
               => gens'[i].delivered = gens[i].delivered]_vars

\* a subscription of the tag is in its loop and was never stopped
Subscribed(customTag) ==
  \E i \in DOMAIN gens :
    /\ gens[i].customTag = customTag
    /\ gens[i].state = "waiting"
    /\ gens[i].stop = "none"

\* C26: when the connection of a subscription for tag T has been removed by
\* a logout or by a normal close, a later streamOperation(T) of a logged-in
\* client registers a connection, writes the subscribe frame on it and stays
\* in its loop to deliver what is dispatched under T.
ResubscriptionAfterTeardown ==
  [][\A m \in StreamMethods :
       (/\ Invoked(m.method)
        /\ isLoggedIn
        /\ Subscribed(m.customTag)
        /\ m.customTag \notin DOMAIN sockets)
       => /\ m.customTag \in DOMAIN sockets'
          /\ LET sent == ws'[sockets'[m.customTag]].sent
             IN  /\ Len(sent) = 1
                 /\ sent[1].frame.command = m.command
          /\ gens'[Len(gens')].state = "waiting"]_vars

\* the subscription a stream method has opened is active: its generator is
\* in its loop, was not stopped, and its connection is registered
ActiveSubscription(t) ==
  /\ t.stream.customTag \in DOMAIN sockets
  /\ \E i \in DOMAIN gens :
       /\ gens[i].method = t.stream.method
       /\ gens[i].state = "waiting"
       /\ gens[i].stop = "none"

\* C27: for every stream type, the stop method called while the subscription
\* opened by the stream method is active finds that subscription's
\* connection, closes it and removes it from the connection map.
StreamAndStopAgree ==
  [][\A t \in StreamTypes :
       (Invoked(t.stop.method) /\ ActiveSubscription(t))
       => /\ ws'[sockets[t.stream.customTag]].readyState \in {"CLOSING", "CLOSED"}
          /\ t.stream.customTag \notin DOMAIN sockets']_vars

\* C28: in every state where isLoggedIn is true the control connection named
\* 'operation' is registered in the connection map and open; when the control
\* transport closes the session stops being logged in.
LoggedInHasControl ==
  isLoggedIn => /\ "operation" \in DOMAIN sockets
                /\ ws[sockets["operation"]].readyState = "OPEN"

\* C29: no frame is written to a connection before its transport has
\* finished opening: no frame was taken by a connecting transport, and
\* neither login nor _streamOperation had its write refused by the
\* connection it had just created.
NoWriteBeforeOpen ==
  /\ \A socket \in DOMAIN ws : \A k \in DOMAIN ws[socket].sent :
       ws[socket].sent[k].readyState # "CONNECTING"
  /\ \A i \in DOMAIN calls :
       calls[i].method = "login" => calls[i].value # "InvalidStateError"
  /\ \A i \in DOMAIN gens : gens[i].error # "InvalidStateError"

\* the endpoints of real accounts
LiveEndpoints == {Config.LIVE_ENDPOINT, Config.LIVE_ENDPOINT_STREAM}

\* C30: a client constructed with isDemo = true opens every connection, the
\* control connection and every streaming connection, against a demo
\* endpoint and never against a live one; a client constructed with
\* isDemo = false uses only live endpoints.
DemoIsolation ==
  \A socket \in DOMAIN ws :
    IF isDemo THEN ws[socket].endpoint \notin LiveEndpoints
              ELSE ws[socket].endpoint \in LiveEndpoints

\* C31: logout invoked while isLoggedIn is false fails with 'Not logged in'
\* and leaves the connection map, the transports registered in it, the
\* listener registrations and the session identifier unchanged.
LogoutWhileLoggedOut ==
  [][(Invoked("logout") /\ ~isLoggedIn)
     => /\ \/ ret' = Thrown("logout", "Not logged in")
           \/ /\ ret' = Returned("logout", "Promise")
              /\ calls'[Len(calls')].state = "rejected"
              /\ calls'[Len(calls')].value = "Not logged in"
        /\ sockets' = sockets
        /\ ws' = ws
        /\ listeners' = listeners
        /\ eventsListened' = eventsListened
        /\ streamSessionId' = streamSessionId]_vars

\* the name of the connection of the tick prices of a symbol
TickPricesName(symbol) == STREAM_TICK_PRICES \o "_" \o symbol

\* C32: streamTickPrices creates at most one subscription per symbol, and
\* the subscriptions of different symbols are independent: called by a
\* logged-in client for a symbol that has no subscription, whatever
\* subscription another symbol has, it opens a connection of its own, named
\* by tag plus symbol, and writes its own subscribe frame.
PerSymbolTickSubscriptions ==
  [][\A symbol \in Symbols :
       (/\ Invoked("streamTickPrices")
        /\ isLoggedIn
        /\ TickPricesName(symbol) \notin DOMAIN sockets)
       => /\ TickPricesName(symbol) \in DOMAIN sockets'
          /\ LET socket == sockets'[TickPricesName(symbol)]
             IN  /\ socket \notin DOMAIN ws
                 /\ Len(ws'[socket].sent) = 1
                 /\ ws'[socket].sent[1].frame.symbol = symbol]_vars

\* C33: when a complete frame of a received chunk is not valid JSON, the
\* complete frames of the chunk that are valid JSON, those after it included,
\* are parsed and dispatched, and the remainder of the connection is what
\* follows the last complete frame, as it is when every frame is valid.
BadFrameKeepsNeighbours ==
  [][pfChunks # <<>> =>
       LET rcvd == Head(pfChunks)
           valid == SelectSeq(pfFrames, LAMBDA text : JSONParse(text).ok)
       IN  /\ pfOut' = FramesOf(valid)
           /\ Len(pfEvents') = Len(valid)
           /\ pfData' = SubSeq(rcvd, Len(WireOf(pfFrames)) + 1, Len(rcvd))]_vars

\* C34: a chunk received on one connection reads and changes only that
\* connection's partial-frame buffer: the buffers of all other connections
\* are unchanged, and what is dispatched was assembled from that buffer and
\* the chunk alone.
BufferIsolation ==
  [][nrecv' = nrecv + 1 =>
       \E socket \in DOMAIN data, rcvd \in BufferChunks :
         LET split == SplitResponses(data[socket], rcvd)
             events == EventsOf(ParsedPrefix(split.responses))
         IN  /\ data' = [data EXCEPT ![socket] = split.remainder]
             /\ calls' = [i \in DOMAIN calls |-> Settle(calls[i], events)]
             /\ gens' = [i \in DOMAIN gens |-> Resume(gens[i], events)]]_vars

\* while the control connection holds the start of a frame, an item has
\* arrived whole on the stream connection and was dispatched
BufferIsolationWitness ==
  /\ "operation" \in DOMAIN sockets
  /\ data[sockets["operation"]] \in {FrameHead(h) : h \in CutResponses}
  /\ \E i \in DOMAIN gens :
       /\ gens[i].expected # <<>>
       /\ gens[i].customTag \in DOMAIN sockets
       /\ data[sockets[gens[i].customTag]] = <<>>

\* C35: every message the client writes to a transport is a single JSON
\* object terminated by "\n\n": the client's own frame parser, given the
\* text on an empty remainder, reads exactly one frame and holds nothing back.
OutboundFraming ==
  \A socket \in DOMAIN ws : \A k \in DOMAIN ws[socket].sent :
    LET text == SentText(ws[socket].sent[k].frame)
        split == SplitResponses(<<>>, text)
    IN  /\ EndsWithTerminator(text)
        /\ split.remainder = <<>>
        /\ Len(split.responses) = 1
        /\ JSONParse(split.responses[1]).ok

\* C36: getChartLastRequest(period, start, symbol), called by a logged-in
\* client whose control connection is open, writes exactly one frame on the
\* control connection: its command is the broker's getChartLastRequest, its
\* tag is the chartLastRequest tag and its arguments are
\* {info: {period, start, symbol}}.
ChartLastRequestCommand ==
  [][(/\ Invoked("getChartLastRequest")
      /\ isLoggedIn
      /\ "operation" \in DOMAIN sockets
      /\ ws[sockets["operation"]].readyState = "OPEN")
     => LET socket == sockets["operation"]
            sent == ws'[socket].sent
        IN  /\ Len(sent) = Len(ws[socket].sent) + 1
            /\ \A other \in DOMAIN ws \ {socket} : ws'[other].sent = ws[other].sent
            /\ sent[Len(sent)].frame.command = "getChartLastRequest"
            /\ sent[Len(sent)].frame.customTag = CHART_LAST_REQUEST
            /\ \E period \in Periods, start \in Starts, symbol \in Symbols :
                 sent[Len(sent)].frame.arguments = ChartArguments(period, start, symbol)]_vars

====
